---- MODULE Spec2Model ----
(***************************************************************************)
(* State-machine model of WebSocketClient                                  *)
(* (src/frontend/src/utils/websocket.ts): one client instance, the         *)
(* browser WebSocket transports it creates, its two timers, its handler    *)
(* registry, and the caller.                                               *)
(*                                                                         *)
(* A transport is a record [st, promise].  `ws` is the transport the field *)
(* this.ws refers to (Null for null).  connect() and disconnect() drop     *)
(* that reference without detaching the four handlers connect() assigned,  *)
(* so a dropped transport that can still deliver an event stays in the bag *)
(* `stale`.  A transport that has delivered its close event delivers       *)
(* nothing more and is forgotten once this.ws no longer refers to it.      *)
(* At most MaxSockets transports that can still deliver events exist.      *)
(***************************************************************************)
EXTENDS Integers, Sequences, FiniteSets, Bags, TLC

\* ---------------------------------------------------------------- bounds
MaxSockets == 3
MaxReconnectAttempts == 2
MaxSubscribes == 2
\* The heartbeat interval, in the time units of the clock.
HeartbeatInterval == 2

\* ------------------------------------------------------- input alphabets
Types == {"price_update", "market_status"}
Handlers == {"h1", "h2"}
\* The (eventType, handler) pairs the caller subscribes.
Pairs == Types \X Handlers
Datas == {"d1"}
\* Payloads given to send(): "circular" is a value JSON.stringify throws on.
Payloads == {"p1", "circular"}
\* Raw frames a transport delivers: an object with type and data, the JSON
\* text null, and a truncated (malformed) text.
Frames == {<<"{", ty, d, "}">> : ty \in Types, d \in Datas}
          \cup {<<"null">>, <<"{", "price_update">>}

VARIABLES
    ws,                         \* this.ws: a transport, or Null
    stale,                      \* bag of wired transports this.ws dropped
    eventHandlers,              \* this.eventHandlers: type -> ordered set
    reconnectTimer,             \* this.reconnectTimer is non-null
    heartbeatTimer,             \* this.heartbeatTimer is non-null
    currentReconnectAttempts,   \* this.currentReconnectAttempts
    isManualClose,              \* this.isManualClose
    reconnectAttempts,          \* this.options.reconnectAttempts
    urlOk,                      \* new WebSocket(this.url) does not throw
    timeouts,                   \* setTimeout callbacks not yet run/cleared
    intervals,                  \* setInterval callbacks not yet cleared
    unsubs,                     \* unsubscribe closures the caller holds
    lastCall,                   \* last connect()/disconnect() of the caller
    lastEvent,                  \* last open/close event delivered
    last,                       \* what the last step did (observation)
    scenario,                   \* steps of the end-to-end scenario followed
    afterExhaustion,            \* this.ws comes from a connect() call the
                                \* caller made once the attempts were used up
    announced,                  \* a subscribeToStockPrices call transmitted
                                \* its subscribe message
    sinceOpen,                  \* time since the latest open event (capped)
    due                         \* time until the setInterval callback is due
                                \* (read only while an interval is live)

client == <<ws, eventHandlers, reconnectTimer, heartbeatTimer,
            currentReconnectAttempts, isManualClose>>
config == <<reconnectAttempts, urlOk>>
timers == <<timeouts, intervals>>
clock == <<sinceOpen, due>>
vars == <<ws, stale, eventHandlers, reconnectTimer, heartbeatTimer,
          currentReconnectAttempts, isManualClose, reconnectAttempts, urlOk,
          timeouts, intervals, unsubs, lastCall, lastEvent, last,
          scenario, afterExhaustion, announced, sinceOpen, due>>
history == <<unsubs, lastCall, lastEvent, scenario, afterExhaustion,
            announced>>

\* ------------------------------------------------------------ transports
\* st: CONNECTING, OPEN, CLOSING are WebSocket.readyState; FAILED and CLOSED
\* both have readyState CLOSED: FAILED has delivered its error event and
\* still owes its close event, CLOSED has delivered its close event.
\* promise: the promise of the connect() call that created the transport.
\* ev: the last open/close event the transport delivered.
Null == [st |-> "NULL", promise |-> "none", ev |-> "none"]
NewSock == [st |-> "CONNECTING", promise |-> "pending", ev |-> "none"]

\* A transport whose handlers can still be called.
Wired(t) == t.st \in {"CONNECTING", "OPEN", "CLOSING", "FAILED"}

\* A transport that is connecting or open.
Live(t) == t.st \in {"CONNECTING", "OPEN"}

\* The transports that can still deliver an event, as (current?, transport).
Places == (IF Wired(ws) THEN {<<TRUE, ws>>} ELSE {})
          \cup {<<FALSE, t>> : t \in BagToSet(stale)}

NumWired == (IF Wired(ws) THEN 1 ELSE 0) + BagCardinality(stale)
LiveBag == [t \in {x \in BagToSet(stale) : Live(x)} |-> stale[t]]
NumLive == (IF Live(ws) THEN 1 ELSE 0) + BagCardinality(LiveBag)

\* A dropped transport is kept only while it can still deliver an event.
Keep(bag, t) == IF Wired(t) THEN bag (+) SetToBag({t}) ELSE bag

\* Transport t at place <<cur, t>> becomes u.
PutWs(cur, t, u) == IF cur THEN u ELSE ws
PutStale(cur, t, u) == IF cur THEN stale ELSE Keep(stale (-) SetToBag({t}), u)

\* Mutant: a later resolve/reject replaces the outcome.
Settle_Overwrites(p, outcome) == outcome

\* Promise settlement: resolve/reject of a settled promise is a no-op.
Settle(p, outcome) == IF p = "pending" THEN outcome ELSE p

\* -------------------------------------------------------- observations
\* What the last step did.  op: the step; cur: it concerned the transport
\* this.ws refers to; arg: its argument; ret: the value returned; tx: the
\* frame handed to the transport (NoFrame for none); calls: the callbacks
\* invoked, in order, each <<callee, argument>>; threw: the handlers whose
\* exception was caught; exc: "caught" when a try block caught an exception
\* of the step, "uncaught" when one left it; pre: the client before the step.
NoCalls == <<>>
NoFrame == <<>>
NoArg == <<>>
Pre == [rt |-> reconnectTimer, hb |-> heartbeatTimer,
        att |-> currentReconnectAttempts, manual |-> isManualClose,
        open |-> ws.st = "OPEN", eh |-> eventHandlers]
Obs(op, cur, ret, tx, calls) ==
    [op |-> op, cur |-> cur, arg |-> NoArg, ret |-> ret, tx |-> tx,
     calls |-> calls, threw |-> {}, exc |-> "none", pre |-> Pre]

\* The end-to-end reconnect scenario, as the steps of the model: the
\* caller connects; the transport opens, then closes; the reconnect timer
\* fires (attempt 1); that transport fails (error, then close); the timer
\* fires again (attempt 2); that transport opens.  scenario counts the steps
\* of it the behaviour has followed from its start, and is Strayed once a
\* lifecycle step departed from it.
Scenario == <<"connect", "open", "close", "timer", "error", "close", "timer",
              "open">>
Strayed == Len(Scenario) + 1
Follow(op) ==
    scenario' = IF scenario < Len(Scenario) /\ Scenario[scenario + 1] = op
                THEN scenario + 1 ELSE Strayed

\* ------------------------------------------------------ private methods
\* Mutant: isConnected() as readyState <= OPEN.
isConnected_NotClosed == ws.st \in {"CONNECTING", "OPEN"}

isConnected == ws.st = "OPEN"

\* Mutant: shouldReconnect() with <= in place of <.
shouldReconnect_Inclusive == currentReconnectAttempts <= reconnectAttempts

shouldReconnect == currentReconnectAttempts < reconnectAttempts

\* Mutant: scheduleReconnect() without its pending-timer guard.
scheduleReconnect_NoGuard ==
    /\ currentReconnectAttempts' = currentReconnectAttempts + 1
    /\ reconnectTimer' = TRUE
    /\ timeouts' = timeouts + 1

scheduleReconnect ==
    IF reconnectTimer
    THEN UNCHANGED <<reconnectTimer, timeouts, currentReconnectAttempts>>
    ELSE /\ currentReconnectAttempts' = currentReconnectAttempts + 1
         /\ reconnectTimer' = TRUE
         /\ timeouts' = timeouts + 1

\* Mutant: nulls the handle without clearTimeout.
clearReconnectTimer_HandleOnly ==
    reconnectTimer' = FALSE /\ UNCHANGED timeouts

clearReconnectTimer ==
    IF reconnectTimer
    THEN reconnectTimer' = FALSE /\ timeouts' = timeouts - 1
    ELSE UNCHANGED <<reconnectTimer, timeouts>>

stopHeartbeat ==
    IF heartbeatTimer
    THEN heartbeatTimer' = FALSE /\ intervals' = intervals - 1
    ELSE UNCHANGED <<heartbeatTimer, intervals>>

\* stopHeartbeat() followed by setInterval(...): the callback is first due
\* one interval after the call.
startHeartbeat ==
    /\ heartbeatTimer' = TRUE
    /\ intervals' = (IF heartbeatTimer THEN intervals - 1 ELSE intervals) + 1
    /\ due' = HeartbeatInterval

\* The body of connect(): the constructor either throws (the promise is
\* rejected and nothing else happens) or yields a CONNECTING transport that
\* is stored in this.ws and wired to the four handlers; the transport this.ws
\* referred to before keeps its handlers.
connect ==
    IF urlOk
    THEN /\ NumWired < MaxSockets
         /\ ws' = NewSock
         /\ stale' = Keep(stale, ws)
    ELSE UNCHANGED <<ws, stale>>

\* WebSocket.close(): starts the closing handshake of a connecting or open
\* transport; a no-op otherwise.
close(t) == IF Live(t) THEN [t EXCEPT !.st = "CLOSING"] ELSE t

\* ------------------------------------------------------------- caller
\* The automatic reconnects have given up: attempts were configured and are
\* used up, no reconnect timer is pending, no transport can deliver an
\* event, and the caller has not disconnected.
Exhausted ==
    /\ reconnectAttempts > 0
    /\ currentReconnectAttempts = reconnectAttempts
    /\ ~reconnectTimer
    /\ ~isManualClose
    /\ NumWired = 0

\* Mutant: a connect() that clears the manual-close flag.
Connect_ClearsFlag ==
    /\ connect
    /\ isManualClose' = FALSE
    /\ lastCall' = "connect"
    /\ Follow("connect")
    /\ last' = Obs("connect", TRUE, urlOk, NoFrame, NoCalls)
    /\ afterExhaustion' = IF urlOk THEN Exhausted ELSE afterExhaustion
    /\ UNCHANGED <<eventHandlers, reconnectTimer, heartbeatTimer,
                   currentReconnectAttempts, config, clock, timers, unsubs,
                   lastEvent,
                   announced>>

Connect ==
    /\ connect
    /\ lastCall' = "connect"
    /\ Follow("connect")
    /\ last' = Obs("connect", TRUE, urlOk, NoFrame, NoCalls)
    /\ afterExhaustion' = IF urlOk THEN Exhausted ELSE afterExhaustion
    /\ UNCHANGED <<eventHandlers, reconnectTimer, heartbeatTimer,
                   currentReconnectAttempts, isManualClose, config, clock,
                   timers, unsubs, lastEvent,
                   announced>>

\* Mutant: a disconnect() that also empties the handler registry.
Disconnect_ClearsHandlers ==
    /\ isManualClose' = TRUE
    /\ clearReconnectTimer
    /\ stopHeartbeat
    /\ eventHandlers' = [ty \in {} |-> <<>>]
    /\ IF ws # Null
       THEN /\ stale' = Keep(stale, close(ws))
            /\ ws' = Null
       ELSE UNCHANGED <<ws, stale>>
    /\ lastCall' = "disconnect"
    /\ Follow("disconnect")
    /\ last' = Obs("disconnect", TRUE, TRUE, NoFrame, NoCalls)
    /\ afterExhaustion' = FALSE
    /\ UNCHANGED <<currentReconnectAttempts, config, clock, unsubs,
                   lastEvent,
                   announced>>

Disconnect ==
    /\ isManualClose' = TRUE
    /\ clearReconnectTimer
    /\ stopHeartbeat
    /\ IF ws # Null
       THEN /\ stale' = Keep(stale, close(ws))
            /\ ws' = Null
       ELSE UNCHANGED <<ws, stale>>
    /\ lastCall' = "disconnect"
    /\ Follow("disconnect")
    /\ last' = Obs("disconnect", TRUE, TRUE, NoFrame, NoCalls)
    /\ afterExhaustion' = FALSE
    /\ UNCHANGED <<eventHandlers, currentReconnectAttempts, config, clock,
                   unsubs, lastEvent,
                   announced>>

\* ------------------------------------------------------------- timers
\* Mutant: a timer callback that does not null this.reconnectTimer.
ReconnectTimerFires_KeepsHandle ==
    /\ timeouts > 0
    /\ timeouts' = timeouts - 1
    /\ connect
    /\ last' = Obs("timer", TRUE, urlOk, NoFrame, NoCalls)
    /\ Follow("timer")
    /\ afterExhaustion' = IF urlOk THEN FALSE ELSE afterExhaustion
    /\ UNCHANGED <<eventHandlers, reconnectTimer, heartbeatTimer,
                   currentReconnectAttempts, isManualClose, config, clock,
                   intervals, unsubs, lastCall, lastEvent,
                   announced>>

ReconnectTimerFires ==
    /\ timeouts > 0
    /\ timeouts' = timeouts - 1
    /\ reconnectTimer' = FALSE
    /\ connect
    /\ last' = Obs("timer", TRUE, urlOk, NoFrame, NoCalls)
    /\ Follow("timer")
    /\ afterExhaustion' = IF urlOk THEN FALSE ELSE afterExhaustion
    /\ UNCHANGED <<eventHandlers, heartbeatTimer, currentReconnectAttempts,
                   isManualClose, config, clock, intervals, unsubs, lastCall,
                   lastEvent,
                   announced>>

\* ---------------------------------------------------- transport events
\* Mutant: an onopen that leaves the attempt counter as it is.
OnOpen_KeepsAttempts(cur, t) ==
    /\ t.st = "CONNECTING"
    /\ LET u == [st |-> "OPEN", promise |-> Settle(t.promise, "resolved"),
                 ev |-> "open"]
       IN  ws' = PutWs(cur, t, u) /\ stale' = PutStale(cur, t, u)
    /\ isManualClose' = FALSE
    /\ startHeartbeat
    /\ last' = Obs("open", cur, TRUE, NoFrame, << <<"onOpen", <<>> >> >>)
    /\ lastEvent' = "open"
    /\ Follow("open")
    /\ sinceOpen' = 0
    /\ UNCHANGED <<eventHandlers, reconnectTimer, currentReconnectAttempts,
                   config, timeouts, unsubs, lastCall, afterExhaustion,
                   announced>>

OnOpen(cur, t) ==
    /\ t.st = "CONNECTING"
    /\ LET u == [st |-> "OPEN", promise |-> Settle(t.promise, "resolved"),
                 ev |-> "open"]
       IN  ws' = PutWs(cur, t, u) /\ stale' = PutStale(cur, t, u)
    /\ currentReconnectAttempts' = 0
    /\ isManualClose' = FALSE
    /\ startHeartbeat
    /\ last' = Obs("open", cur, TRUE, NoFrame, << <<"onOpen", <<>> >> >>)
    /\ lastEvent' = "open"
    /\ Follow("open")
    /\ sinceOpen' = 0
    /\ UNCHANGED <<eventHandlers, reconnectTimer, config, timeouts,
                   unsubs, lastCall, afterExhaustion,
                   announced>>

OnClose(cur, t) ==
    /\ Wired(t)
    /\ LET u == [t EXCEPT !.st = "CLOSED", !.ev = "close"]
       IN  ws' = PutWs(cur, t, u) /\ stale' = PutStale(cur, t, u)
    /\ stopHeartbeat
    /\ IF ~isManualClose /\ shouldReconnect
       THEN scheduleReconnect
       ELSE UNCHANGED <<reconnectTimer, timeouts, currentReconnectAttempts>>
    /\ last' = Obs("close", cur, ~isManualClose /\ shouldReconnect, NoFrame,
                   << <<"onClose", <<>> >> >>)
    /\ lastEvent' = "close"
    /\ Follow("close")
    /\ UNCHANGED <<eventHandlers, isManualClose, config, clock, unsubs,
                   lastCall, afterExhaustion,
                   announced>>

\* Mutant: an onerror that schedules a retry when the handshake it ends
\* had not opened.
OnError_RetriesHandshake(cur, t) ==
    /\ t.st \in {"CONNECTING", "OPEN", "CLOSING"}
    /\ LET u == [t EXCEPT !.st = "FAILED",
                         !.promise = Settle(t.promise, "rejected")]
       IN  ws' = PutWs(cur, t, u) /\ stale' = PutStale(cur, t, u)
    /\ IF t.promise = "pending" /\ shouldReconnect
       THEN scheduleReconnect
       ELSE UNCHANGED <<reconnectTimer, timeouts, currentReconnectAttempts>>
    /\ last' = Obs("error", cur, TRUE, NoFrame, << <<"onError", <<>> >> >>)
    /\ Follow("error")
    /\ UNCHANGED <<eventHandlers, heartbeatTimer, isManualClose, config,
                   clock, intervals, unsubs, lastCall, lastEvent,
                   afterExhaustion,
                   announced>>

\* Mutant: an onerror that also runs the reconnect logic of onclose.
OnError_Reconnects(cur, t) ==
    /\ t.st \in {"CONNECTING", "OPEN", "CLOSING"}
    /\ LET u == [t EXCEPT !.st = "FAILED",
                         !.promise = Settle(t.promise, "rejected")]
       IN  ws' = PutWs(cur, t, u) /\ stale' = PutStale(cur, t, u)
    /\ IF ~isManualClose /\ shouldReconnect
       THEN scheduleReconnect
       ELSE UNCHANGED <<reconnectTimer, timeouts, currentReconnectAttempts>>
    /\ last' = Obs("error", cur, TRUE, NoFrame, << <<"onError", <<>> >> >>)
    /\ Follow("error")
    /\ UNCHANGED <<eventHandlers, heartbeatTimer, isManualClose, config,
                   clock, intervals, unsubs, lastCall, lastEvent,
                   afterExhaustion, announced>>

\* The connection failed: readyState is CLOSED when the error event is
\* delivered, and the close event follows.
OnError(cur, t) ==
    /\ t.st \in {"CONNECTING", "OPEN", "CLOSING"}
    /\ LET u == [t EXCEPT !.st = "FAILED",
                         !.promise = Settle(t.promise, "rejected")]
       IN  ws' = PutWs(cur, t, u) /\ stale' = PutStale(cur, t, u)
    /\ last' = Obs("error", cur, TRUE, NoFrame, << <<"onError", <<>> >> >>)
    /\ Follow("error")
    /\ UNCHANGED <<eventHandlers, reconnectTimer, heartbeatTimer,
                   currentReconnectAttempts, isManualClose, config, clock,
                   timers, unsubs, lastCall, lastEvent, afterExhaustion,
                   announced>>

\* The closing handshake starts (the server sent a Close frame): readyState
\* becomes CLOSING and no handler of the client is called.
TransportClosing(cur, t) ==
    /\ t.st = "OPEN"
    /\ LET u == [t EXCEPT !.st = "CLOSING"]
       IN  ws' = PutWs(cur, t, u) /\ stale' = PutStale(cur, t, u)
    /\ last' = Obs("closing", cur, TRUE, NoFrame, NoCalls)
    /\ Follow("closing")
    /\ UNCHANGED <<eventHandlers, reconnectTimer, heartbeatTimer,
                   currentReconnectAttempts, isManualClose, config, clock,
                   timers, unsubs, lastCall, lastEvent, afterExhaustion,
                   announced>>

\* ------------------------------------------------- send and heartbeat
\* JSON.stringify: throws on a circular value, else the JSON text.
JSONstringify(p) ==
    IF p = "circular" THEN [ok |-> FALSE, text |-> NoFrame]
    ELSE [ok |-> TRUE, text |-> <<"json", p>>]

\* Mutant: send() without its isConnected() guard.
send_NoGuard(p) ==
    IF JSONstringify(p).ok /\ ws # Null
    THEN [ret |-> TRUE, tx |-> JSONstringify(p).text, exc |-> "none"]
    ELSE [ret |-> FALSE, tx |-> NoFrame, exc |-> "caught"]

\* send(data): the value returned, the frame handed to the transport, and
\* whether the try block caught an exception.
send(p) ==
    IF ~isConnected
    THEN [ret |-> FALSE, tx |-> NoFrame, exc |-> "none"]
    ELSE IF JSONstringify(p).ok
         THEN [ret |-> TRUE, tx |-> JSONstringify(p).text, exc |-> "none"]
         ELSE [ret |-> FALSE, tx |-> NoFrame, exc |-> "caught"]

Send(p) ==
    /\ last' = [Obs("send", TRUE, send(p).ret, send(p).tx, NoCalls)
                   EXCEPT !.arg = <<p>>, !.exc = send(p).exc]
    /\ UNCHANGED <<client, stale, config, clock, timers, history>>

IsConnected ==
    /\ last' = Obs("isConnected", TRUE, isConnected, NoFrame, NoCalls)
    /\ UNCHANGED <<client, stale, config, clock, timers, history>>

\* Mutant: a callback that transmits the probe whatever the connection.
heartbeat_NoGuard == JSONstringify("ping").text

\* The callback startHeartbeat() gave to setInterval: the frame it sends.
heartbeat == IF isConnected THEN send("ping").tx ELSE NoFrame

\* One period of a live setInterval callback.
HeartbeatTick ==
    /\ intervals > 0
    /\ last' = Obs("tick", TRUE, isConnected, heartbeat, NoCalls)
    /\ UNCHANGED <<client, stale, config, clock, timers, history>>

\* One unit of time passes: the live setInterval callback comes closer to
\* being due (the event loop may run it late, never early).
Advance ==
    /\ sinceOpen < HeartbeatInterval \/ (intervals > 0 /\ due > 0)
    /\ sinceOpen' = IF sinceOpen < HeartbeatInterval
                    THEN sinceOpen + 1 ELSE sinceOpen
    /\ due' = IF intervals > 0 /\ due > 0 THEN due - 1 ELSE due
    /\ last' = Obs("advance", TRUE, TRUE, NoFrame, NoCalls)
    /\ UNCHANGED <<client, stale, config, timers, history>>

\* The live setInterval callback runs when it is due, and is next due one
\* interval later.
HeartbeatFires ==
    /\ intervals > 0
    /\ due = 0
    /\ due' = HeartbeatInterval
    /\ last' = Obs("tick", TRUE, isConnected, heartbeat, NoCalls)
    /\ UNCHANGED <<client, stale, config, timers, history, sinceOpen>>

\* ------------------------------------------------------------ registry
NoHandlers == [ty \in {} |-> <<>>]

Range(q) == {q[i] : i \in 1..Len(q)}

\* Mutant: an array push in place of Set.add.
SetAdd_Push(q, h) == Append(q, h)

\* Set.add: an element already present is not added again.
SetAdd(q, h) == IF h \in Range(q) THEN q ELSE Append(q, h)

\* Set.delete
SetDelete_Keeps(q, h) == q
SetDelete(q, h) == SelectSeq(q, LAMBDA x : x # h)

\* Map.set / Map.delete
MapSet(m, k, v) == [x \in DOMAIN m \cup {k} |-> IF x = k THEN v ELSE m[x]]
\* Mutant: a delete that leaves the key, mapped to an empty set.
MapDelete_Empties(m, k) == [x \in DOMAIN m |-> IF x = k THEN <<>> ELSE m[x]]
MapDelete(m, k) == [x \in DOMAIN m \ {k} |-> m[x]]

\* subscribe(eventType, handler): the registry afterwards
subscribe(ty, h) ==
    LET m == IF ty \in DOMAIN eventHandlers
             THEN eventHandlers ELSE MapSet(eventHandlers, ty, <<>>)
    IN  MapSet(m, ty, SetAdd(m[ty], h))

\* Mutant: the closure deletes the whole entry of its type.
unsubscribe_DropsType(ty, h) == MapDelete(eventHandlers, ty)

\* the closure subscribe(eventType, handler) returned: the registry afterwards
unsubscribe(ty, h) ==
    IF ty \in DOMAIN eventHandlers
    THEN LET hs == SetDelete(eventHandlers[ty], h)
         IN  IF Len(hs) = 0 THEN MapDelete(eventHandlers, ty)
             ELSE MapSet(eventHandlers, ty, hs)
    ELSE eventHandlers

\* Each subscribe call returns a new closure; unsubs counts, per pair, the
\* closures returned (made) and those among them called at least once.
RECURSIVE SumMade(_)
SumMade(ps) ==
    IF ps = {} THEN 0
    ELSE LET pr == CHOOSE x \in ps : TRUE
         IN  unsubs[pr].made + SumMade(ps \ {pr})

Subscribe(ty, h) ==
    /\ SumMade(Pairs) < MaxSubscribes
    /\ eventHandlers' = subscribe(ty, h)
    /\ unsubs' = [unsubs EXCEPT ![<<ty, h>>].made = @ + 1]
    /\ last' = [Obs("subscribe", TRUE, TRUE, NoFrame, NoCalls)
                   EXCEPT !.arg = <<ty, h>>]
    /\ UNCHANGED <<ws, stale, reconnectTimer, heartbeatTimer,
                   currentReconnectAttempts, isManualClose, config, clock,
                   timers, lastCall, lastEvent, scenario, afterExhaustion,
                   announced>>

\* The caller calls a closure it holds: one not called before (fresh), or
\* one called before.
Unsubscribe(ty, h, fresh) ==
    /\ IF fresh THEN unsubs[<<ty, h>>].called < unsubs[<<ty, h>>].made
                ELSE unsubs[<<ty, h>>].called > 0
    /\ eventHandlers' = unsubscribe(ty, h)
    /\ unsubs' = [unsubs EXCEPT ![<<ty, h>>].called =
                                   IF fresh THEN @ + 1 ELSE @]
    /\ last' = [Obs("unsubscribe", fresh, TRUE, NoFrame, NoCalls)
                   EXCEPT !.arg = <<ty, h>>]
    /\ UNCHANGED <<ws, stale, reconnectTimer, heartbeatTimer,
                   currentReconnectAttempts, isManualClose, config, clock,
                   timers, lastCall, lastEvent, scenario, afterExhaustion,
                   announced>>

\* --------------------------------------------------------- stock prices
\* getWebSocket(): the one client of the module, made on first use; the
\* model's client is that instance.
getWebSocket == client

\* The outward control message of subscribeToStockPrices and of its cleanup:
\* { type: kind, data: { stockCodes } } handed to send() when isConnected()
\* holds, and nothing otherwise.  The stockCodes array is a list of strings:
\* it always serializes and selects no branch, so the message is modelled
\* by its kind.
control(kind) == IF isConnected THEN send(kind).tx ELSE NoFrame

\* subscribeToStockPrices(stockCodes, handler)
SubscribeToStockPrices(h) ==
    /\ SumMade(Pairs) < MaxSubscribes
    /\ eventHandlers' = subscribe("price_update", h)
    /\ unsubs' = [unsubs EXCEPT ![<<"price_update", h>>].made = @ + 1]
    /\ announced' = (announced \/ control("subscribe") # NoFrame)
    /\ last' = [Obs("subscribeToStockPrices", TRUE, TRUE,
                    control("subscribe"), NoCalls)
                   EXCEPT !.arg = <<"price_update", h>>]
    /\ UNCHANGED <<ws, stale, reconnectTimer, heartbeatTimer,
                   currentReconnectAttempts, isManualClose, config, clock,
                   timers, lastCall, lastEvent, scenario, afterExhaustion>>

\* Mutant: a cleanup that sends the unsubscribe message only when a
\* subscribe message was sent before.
StockCleanup_OnlyIfAnnounced(h, fresh) ==
    /\ IF fresh THEN unsubs[<<"price_update", h>>].called
                       < unsubs[<<"price_update", h>>].made
                ELSE unsubs[<<"price_update", h>>].called > 0
    /\ eventHandlers' = unsubscribe("price_update", h)
    /\ unsubs' = [unsubs EXCEPT ![<<"price_update", h>>].called =
                                   IF fresh THEN @ + 1 ELSE @]
    /\ last' = [Obs("cleanup", fresh, TRUE,
                    IF announced THEN control("unsubscribe") ELSE NoFrame,
                    NoCalls)
                   EXCEPT !.arg = <<"price_update", h>>]
    /\ UNCHANGED <<ws, stale, reconnectTimer, heartbeatTimer,
                   currentReconnectAttempts, isManualClose, config, clock,
                   timers, lastCall, lastEvent, scenario, afterExhaustion,
                   announced>>

\* The cleanup function subscribeToStockPrices returned: the caller calls
\* one not called before (fresh), or one called before.
StockCleanup(h, fresh) ==
    /\ IF fresh THEN unsubs[<<"price_update", h>>].called
                       < unsubs[<<"price_update", h>>].made
                ELSE unsubs[<<"price_update", h>>].called > 0
    /\ eventHandlers' = unsubscribe("price_update", h)
    /\ unsubs' = [unsubs EXCEPT ![<<"price_update", h>>].called =
                                   IF fresh THEN @ + 1 ELSE @]
    /\ last' = [Obs("cleanup", fresh, TRUE, control("unsubscribe"), NoCalls)
                   EXCEPT !.arg = <<"price_update", h>>]
    /\ UNCHANGED <<ws, stale, reconnectTimer, heartbeatTimer,
                   currentReconnectAttempts, isManualClose, config, clock,
                   timers, lastCall, lastEvent, scenario, afterExhaustion,
                   announced>>

\* ------------------------------------------------------------ dispatch
\* JSON.parse of a frame: an object <<type, data>>, null (<<>>), or a throw.
JSONparse(raw) ==
    IF Len(raw) = 4 /\ raw[1] = "{" /\ raw[4] = "}"
    THEN [ok |-> TRUE, value |-> <<raw[2], raw[3]>>]
    ELSE IF raw = <<"null">> THEN [ok |-> TRUE, value |-> <<>>]
    ELSE [ok |-> FALSE, value |-> <<>>]

\* Mutant: one try block around the whole loop, which the first throw ends.
forEach_StopsAtThrow(hs, data, throwers) ==
    LET bad == {i \in 1..Len(hs) : hs[i] \in throwers}
        n == IF bad = {} THEN Len(hs)
             ELSE CHOOSE i \in bad : \A j \in bad : i <= j
    IN  [i \in 1..n |-> <<hs[i], <<data>> >>]

\* handlers.forEach(handler => try { handler(data) } catch ...): every
\* handler is called in turn, whichever of them throw.
forEach(hs, data, throwers) == [i \in 1..Len(hs) |-> <<hs[i], <<data>> >>]

\* handleMessage(message): the calls made, the handlers whose exception was
\* caught, and whether an exception left handleMessage.  cbThrows: the
\* onMessage callback throws; throwers: the handlers that throw.
handleMessage(message, cbThrows, throwers) ==
    LET generic == << <<"onMessage", message>> >>
    IN  IF cbThrows \/ message = <<>>
        THEN [calls |-> generic, threw |-> {}, escaped |-> TRUE]
        ELSE IF message[1] \in DOMAIN eventHandlers
        THEN LET hs == eventHandlers[message[1]]
                 calls == forEach(hs, message[2], throwers)
             IN  [calls |-> generic \o calls,
                  threw |-> throwers \cap {calls[i][1] : i \in 1..Len(calls)},
                  escaped |-> FALSE]
        ELSE [calls |-> generic, threw |-> {}, escaped |-> FALSE]

\* Mutant: JSON.parse outside the try block.
onmessage_ParseOutsideTry(raw, cbThrows, throwers) ==
    IF JSONparse(raw).ok
    THEN LET r == handleMessage(JSONparse(raw).value, cbThrows, throwers)
         IN  [calls |-> r.calls, threw |-> r.threw,
              exc |-> IF r.escaped THEN "caught" ELSE "none"]
    ELSE [calls |-> NoCalls, threw |-> {}, exc |-> "uncaught"]

\* ws.onmessage: parse and dispatch inside one try block.
onmessage(raw, cbThrows, throwers) ==
    IF JSONparse(raw).ok
    THEN LET r == handleMessage(JSONparse(raw).value, cbThrows, throwers)
         IN  [calls |-> r.calls, threw |-> r.threw,
              exc |-> IF r.escaped THEN "caught" ELSE "none"]
    ELSE [calls |-> NoCalls, threw |-> {}, exc |-> "caught"]

\* The handlers registered under the tag of a frame (none when the frame
\* does not parse to an object).
Registered(raw) ==
    LET m == JSONparse(raw)
    IN  IF m.ok /\ m.value # <<>> /\ m.value[1] \in DOMAIN eventHandlers
        THEN Range(eventHandlers[m.value[1]]) ELSE {}

\* A transport delivers a frame: it is open, or closing after it was open.
OnMessage(cur, t, raw, cbThrows, throwers) ==
    /\ t.st = "OPEN" \/ (t.st = "CLOSING" /\ t.ev = "open")
    /\ LET r == onmessage(raw, cbThrows, throwers)
       IN  last' = [Obs("message", cur, TRUE, NoFrame, r.calls)
                       EXCEPT !.arg = raw, !.threw = r.threw, !.exc = r.exc]
    /\ UNCHANGED <<client, stale, config, clock, timers, history>>

\* ------------------------------------------------------ specification
Init ==
    /\ ws = Null
    /\ stale = EmptyBag
    /\ eventHandlers = NoHandlers
    /\ reconnectTimer = FALSE
    /\ heartbeatTimer = FALSE
    /\ currentReconnectAttempts = 0
    /\ isManualClose = FALSE
    /\ reconnectAttempts \in 0..MaxReconnectAttempts
    /\ urlOk \in BOOLEAN
    /\ timeouts = 0
    /\ intervals = 0
    /\ unsubs = [pr \in Pairs |-> [made |-> 0, called |-> 0]]
    /\ lastCall = "none"
    /\ lastEvent = "none"
    /\ last = Obs("init", TRUE, TRUE, NoFrame, NoCalls)
    /\ scenario = 0
    /\ afterExhaustion = FALSE
    /\ announced = FALSE
    /\ sinceOpen = 0
    /\ due = HeartbeatInterval

Next ==
    \/ Connect
    \/ Disconnect
    \/ ReconnectTimerFires
    \/ \E p \in Places : OnOpen(p[1], p[2])
    \/ \E p \in Places : OnClose(p[1], p[2])
    \/ \E p \in Places : OnError(p[1], p[2])
    \/ \E p \in Places : TransportClosing(p[1], p[2])
    \/ \E p \in Payloads : Send(p)
    \/ IsConnected
    \/ HeartbeatTick

Spec == Init /\ [][Next]_vars

\* The registry and the dispatch of inbound frames, over a client used one
\* transport at a time: connect() is called, and the reconnect timer fires,
\* only when no transport can still deliver an event.
NextDispatch ==
    \/ NumWired = 0 /\ Connect
    \/ Disconnect
    \/ NumWired = 0 /\ ReconnectTimerFires
    \/ \E p \in Places : OnOpen(p[1], p[2])
    \/ \E p \in Places : OnClose(p[1], p[2])
    \/ \E p \in Places : OnError(p[1], p[2])
    \/ \E p \in Places : TransportClosing(p[1], p[2])
    \/ \E pr \in Pairs : Subscribe(pr[1], pr[2])
    \/ \E pr \in Pairs, fresh \in BOOLEAN : Unsubscribe(pr[1], pr[2], fresh)
    \/ \E p \in Places, raw \in Frames, cbThrows \in BOOLEAN :
          \E throwers \in SUBSET Registered(raw) :
             OnMessage(p[1], p[2], raw, cbThrows, throwers)

SpecDispatch == Init /\ [][NextDispatch]_vars

\* The connection lifecycle with a caller that alternates connect() and
\* disconnect(): it never calls connect() twice in a row.
NextSerial ==
    \/ lastCall # "connect" /\ Connect
    \/ Disconnect
    \/ ReconnectTimerFires
    \/ \E p \in Places : OnOpen(p[1], p[2])
    \/ \E p \in Places : OnClose(p[1], p[2])
    \/ \E p \in Places : OnError(p[1], p[2])
    \/ \E p \in Places : TransportClosing(p[1], p[2])

SpecSerial == Init /\ [][NextSerial]_vars

\* The connection lifecycle with a clock: time passes in units, and the
\* heartbeat callback runs when an interval has passed since setInterval or
\* since its last run.
NextHeartbeat ==
    \/ Connect
    \/ Disconnect
    \/ ReconnectTimerFires
    \/ \E p \in Places : OnOpen(p[1], p[2])
    \/ \E p \in Places : OnClose(p[1], p[2])
    \/ \E p \in Places : OnError(p[1], p[2])
    \/ \E p \in Places : TransportClosing(p[1], p[2])
    \/ Advance
    \/ HeartbeatFires

SpecHeartbeat == Init /\ [][NextHeartbeat]_vars

\* The stock price subscriptions over the connection lifecycle of the one
\* client, used one transport at a time.
NextStock ==
    \/ NumWired = 0 /\ Connect
    \/ Disconnect
    \/ NumWired = 0 /\ ReconnectTimerFires
    \/ \E p \in Places : OnOpen(p[1], p[2])
    \/ \E p \in Places : OnClose(p[1], p[2])
    \/ \E p \in Places : OnError(p[1], p[2])
    \/ \E p \in Places : TransportClosing(p[1], p[2])
    \/ \E h \in Handlers : SubscribeToStockPrices(h)
    \/ \E h \in Handlers, fresh \in BOOLEAN : StockCleanup(h, fresh)

SpecStock == Init /\ [][NextStock]_vars

\* ================================================================ claims
\* Helpers over the observation of the last step.
IsMessage == last.op = "message"
Parsed == JSONparse(last.arg)
\* The last step delivered a frame that parsed to an object.
IsObjectMessage == IsMessage /\ Parsed.ok /\ Parsed.value # <<>>
\* How often the last step called handler h.
CountCalls(h) ==
    Cardinality({i \in 1..Len(last.calls) : last.calls[i][1] = h})
\* Closures of a pair returned and not yet called.
Outstanding(ty, h) == unsubs[<<ty, h>>].made - unsubs[<<ty, h>>].called
\* subscribe(ty, h) was called at least twice and no closure of it called.
SubscribedTwice(ty, h) ==
    unsubs[<<ty, h>>].made >= 2 /\ unsubs[<<ty, h>>].called = 0

\* C1: once disconnect() was the caller's last call, a transport close
\* event leaves the reconnect timer unset and the attempt counter unchanged.
C1_NoReconnectAfterDisconnect ==
    (last.op = "close" /\ lastCall = "disconnect")
        => /\ ~reconnectTimer
           /\ timeouts = 0
           /\ currentReconnectAttempts = last.pre.att

\* C2: once currentReconnectAttempts equals reconnectAttempts, a close
\* event leaves the reconnect timer unset.
C2_NoTimerOnceExhausted ==
    (last.op = "close" /\ last.pre.att = reconnectAttempts)
        => (~reconnectTimer /\ timeouts = 0)

\* C3: never more than one transport that is connecting or open and wired
\* to the client's handlers.
C3_AtMostOneLiveConnection == NumLive <= 1

\* C4: at most one pending reconnect timer and at most one pending heartbeat
\* timer; a qualifying close while a reconnect timer is pending changes
\* neither the timer nor the counter; an open while a heartbeat is running
\* leaves one heartbeat timer.
C4_AtMostOneTimerEach ==
    /\ timeouts <= 1
    /\ intervals <= 1
    /\ (last.op = "close" /\ last.ret /\ last.pre.rt)
          => /\ reconnectTimer
             /\ timeouts = 1
             /\ currentReconnectAttempts = last.pre.att
    /\ (last.op = "open" /\ last.pre.hb) => (heartbeatTimer /\ intervals = 1)

\* A qualifying close arrived while a reconnect timer was pending.
C4_Witness ==
    last.op = "close" /\ last.ret /\ last.pre.rt /\ timeouts = 1

\* C5 as stated: isConnected() is true iff the latest open/close event
\* delivered to the client was an open.
C5_ReflectsLastEvent == isConnected <=> (lastEvent = "open")

\* C5 amended: isConnected() is true exactly when the transport this.ws
\* refers to has delivered its open event and has neither started closing,
\* failed nor closed; the call returns that value and changes no state.
C5_ReflectsCurrentTransport ==
    /\ [](isConnected <=> (ws.ev = "open" /\ ws.st \notin {"CLOSING", "FAILED"}))
    /\ [][last'.op = "isConnected"
            => (last'.ret = isConnected /\ UNCHANGED <<client, stale, timers>>)]_vars

\* isConnected() returned true although the latest event was a close.
C5_Witness ==
    last.op = "isConnected" /\ last.ret /\ ws.ev = "open" /\ lastEvent = "close"

\* C6 as stated: send() transmits, and returns true, iff the connection is
\* open at the call.
C6_SendIffOpen ==
    last.op = "send"
        => /\ last.ret <=> last.pre.open
           /\ (last.tx # NoFrame) <=> last.pre.open

\* C6 amended: send() transmits only if the connection is open at the call
\* and returns true exactly when it transmitted; on an open connection it
\* transmits the serialized payload unless serializing throws, and then it
\* returns false; no step other than a send or a heartbeat period on an
\* open connection transmits anything.
C6_SendOnlyIfOpen ==
    /\ last.op = "send"
          => /\ last.ret <=> (last.tx # NoFrame)
             /\ (last.tx # NoFrame) <=>
                    (last.pre.open /\ JSONstringify(last.arg[1]).ok)
             /\ last.ret => last.tx = JSONstringify(last.arg[1]).text
    /\ last.tx # NoFrame => (last.op \in {"send", "tick"} /\ last.pre.open)

\* send() on an open connection returned false: the payload did not
\* serialize.
C6_Witness ==
    last.op = "send" /\ last.pre.open /\ ~last.ret /\ last.exc = "caught"

\* C7: for every frame that parses, the generic callback is called first
\* with the full message, then every handler registered under its tag is
\* called exactly once with the payload, and no other handler is called.
C7_DispatchToAllHandlers ==
    (IsMessage /\ Parsed.ok)
        => /\ Len(last.calls) >= 1
           /\ last.calls[1] = <<"onMessage", Parsed.value>>
           /\ \A h \in Handlers :
                 CountCalls(h) = IF h \in Registered(last.arg) THEN 1 ELSE 0
           /\ \A i \in 2..Len(last.calls) :
                 last.calls[i][2] = <<Parsed.value[2]>>

\* C8: when a handler registered for a frame's tag throws, every handler
\* registered for that tag is still called once, and the step changes
\* nothing of the client, its transports or its timers.
C8_HandlerExceptionsIsolated ==
    /\ []((IsMessage /\ last.threw # {})
            => \A h \in Registered(last.arg) : CountCalls(h) = 1)
    /\ [][(last'.op = "message" /\ last'.threw # {})
            => UNCHANGED <<client, stale, timers>>]_vars

\* The first of two handlers threw and the second was called.
C8_Witness ==
    /\ IsMessage
    /\ Len(last.calls) = 3
    /\ last.calls[2][1] \in last.threw
    /\ last.calls[3][1] \notin last.threw

\* C9: a frame that fails to parse is caught inside onmessage, calls
\* neither the generic callback nor a handler, and changes nothing of the
\* client, its transports or its timers.
C9_MalformedFrameDropped ==
    /\ []((IsMessage /\ ~Parsed.ok)
            => /\ last.calls = NoCalls
               /\ last.threw = {}
               /\ last.exc = "caught")
    /\ [][(last'.op = "message" /\ ~JSONparse(last'.arg).ok)
            => UNCHANGED <<client, stale, timers>>]_vars

\* A malformed frame reached a client with a handler registered and its
\* heartbeat running.
C9_Witness ==
    /\ IsMessage
    /\ ~Parsed.ok
    /\ DOMAIN eventHandlers # {}
    /\ heartbeatTimer

\* C10 as stated: every subscribe call is a registration of its own, so a
\* frame calls a handler once per closure of its pair not yet called.
C10_OneRegistrationPerCall ==
    (IsObjectMessage /\ last.exc = "none")
        => \A h \in Handlers :
              CountCalls(h) = Outstanding(Parsed.value[1], h)

\* C10 amended: the registry is a Set, so a handler subscribed twice for a
\* type is called exactly once per frame of that type, and calling either
\* unsubscribe function removes it: it is no longer registered.
C10_SetSemantics ==
    /\ (IsObjectMessage /\ last.exc = "none")
          => \A h \in Handlers :
                SubscribedTwice(Parsed.value[1], h) => CountCalls(h) = 1
    /\ last.op = "unsubscribe"
          => (last.arg[1] \in DOMAIN eventHandlers
                => last.arg[2] \notin Range(eventHandlers[last.arg[1]]))

\* A handler subscribed twice, neither closure called, was called once.
C10_Witness ==
    /\ IsObjectMessage
    /\ last.exc = "none"
    /\ \E h \in Handlers :
          SubscribedTwice(Parsed.value[1], h) /\ CountCalls(h) = 1

\* The handlers registered under a type, in insertion order.
HandlersOf(m, ty) == IF ty \in DOMAIN m THEN m[ty] ELSE <<>>

\* C11: calling an unsubscribe function of subscribe(type, h) removes h from
\* the handlers of type and nothing else: every other handler of that type
\* and of every other type stays registered, in its order; no exception is
\* raised; and calling an unsubscribe function of the same pair again, right
\* after, leaves the registry as the first call left it.
C11_UnsubscribeExactAndIdempotent ==
    [][last'.op = "unsubscribe"
         => /\ \A ty \in Types :
                  HandlersOf(eventHandlers', ty) =
                     IF ty = last'.arg[1]
                     THEN SelectSeq(HandlersOf(eventHandlers, ty),
                                    LAMBDA x : x # last'.arg[2])
                     ELSE HandlersOf(eventHandlers, ty)
            /\ last'.exc = "none"
            /\ (last.op = "unsubscribe" /\ last.arg = last'.arg)
                  => eventHandlers' = eventHandlers
            /\ UNCHANGED <<ws, stale, reconnectTimer, heartbeatTimer,
                           currentReconnectAttempts, isManualClose, timers>>]_vars

\* An unsubscribe function was called a second time while another handler
\* of the same type was registered.
C11_Witness ==
    /\ last.op = "unsubscribe"
    /\ ~last.cur
    /\ last.arg[1] \in DOMAIN eventHandlers
    /\ last.pre.eh = eventHandlers
    /\ last.arg[2] \notin Range(eventHandlers[last.arg[1]])

\* The heartbeat probe: JSON.stringify of the ping message.
Probe == JSONstringify("ping").text

\* C12: a heartbeat probe is transmitted only by a run of the interval
\* callback that finds the connection open; a run that finds it not open
\* transmits nothing and changes nothing (nothing is queued or retried); and
\* a probe is transmitted no earlier than one full heartbeat interval after
\* the latest open event.
C12_ProbesOnlyWhileOpen ==
    /\ [](/\ last.tx # NoFrame => last.op = "tick"
          /\ last.op = "tick"
                => /\ (last.tx # NoFrame) <=> last.pre.open
                   /\ last.tx \in {NoFrame, Probe}
                   /\ last.tx = Probe => sinceOpen >= HeartbeatInterval)
    /\ [][last'.op = "tick"
            => UNCHANGED <<client, stale, timers, sinceOpen>>]_vars

\* A run of the interval callback found the connection not open, a full
\* interval after the latest open, and transmitted nothing.
C12_Witness ==
    /\ last.op = "tick"
    /\ ~last.pre.open
    /\ last.tx = NoFrame
    /\ sinceOpen >= HeartbeatInterval
    /\ ws # Null

C14_CloseEffects ==
    last.op = "close"
        => /\ ~heartbeatTimer
           /\ last.calls = << <<"onClose", <<>> >> >>
           /\ last.ret <=> (~last.pre.manual
                              /\ last.pre.att < reconnectAttempts)
           /\ last.ret => reconnectTimer
           /\ ~last.ret => /\ reconnectTimer = last.pre.rt
                           /\ currentReconnectAttempts = last.pre.att
                           /\ ~isConnected

\* C15: with reconnectAttempts = 2, along the scenario open, close,
\* reconnect attempt 1 fails to open, close again, reconnect attempt 2 opens:
\* the first close schedules a timer with the counter at 1, the timer fires
\* and connects, the second close schedules a timer with the counter at 2,
\* that timer fires and connects, and after the final open the counter is 0
\* and isConnected() is true.
C15_ReconnectScenario ==
    (reconnectAttempts = 2 /\ urlOk)
        => /\ scenario = 3 => /\ reconnectTimer /\ timeouts = 1
                              /\ currentReconnectAttempts = 1
           /\ scenario = 4 => /\ ~reconnectTimer /\ ws.st = "CONNECTING"
                              /\ currentReconnectAttempts = 1
           /\ scenario = 6 => /\ reconnectTimer /\ timeouts = 1
                              /\ currentReconnectAttempts = 2
           /\ scenario = 7 => /\ ~reconnectTimer /\ ws.st = "CONNECTING"
                              /\ currentReconnectAttempts = 2
           /\ scenario = Len(Scenario) => /\ currentReconnectAttempts = 0
                                          /\ isConnected

\* The whole scenario was executed with reconnectAttempts = 2.
C15_Witness ==
    /\ scenario = Len(Scenario)
    /\ reconnectAttempts = 2
    /\ last.op = "open"
    /\ last.pre.att = 2

\* The transports the model tracks: the current one and the dropped ones.
Transports == {ws} \cup BagToSet(stale)

C17_ErrorLeavesReconnectState ==
    [][last'.op = "error"
         => /\ last'.calls = << <<"onError", <<>> >> >>
            /\ UNCHANGED <<currentReconnectAttempts, isManualClose,
                           reconnectTimer, heartbeatTimer, eventHandlers,
                           timeouts, intervals>>]_vars

\* An error event reached a client with a handler registered, its
\* heartbeat running, the manual-close flag clear and attempts left.
C17_Witness ==
    /\ last.op = "error"
    /\ DOMAIN eventHandlers # {}
    /\ heartbeatTimer
    /\ ~isManualClose
    /\ shouldReconnect
    /\ ~reconnectTimer

\* C18: in every reachable state the attempt counter is at least 0 and at
\* most reconnectAttempts, and it is 0 right after every open event,
\* whichever transports deliver the events.
C18_AttemptsWithinBudget ==
    /\ currentReconnectAttempts >= 0
    /\ currentReconnectAttempts <= reconnectAttempts
    /\ last.op = "open" => currentReconnectAttempts = 0

\* A dropped transport delivered its close event after another close had
\* used the last attempt.
C18_Witness ==
    /\ last.op = "close"
    /\ ~last.cur
    /\ ~last.pre.manual
    /\ reconnectAttempts > 0
    /\ last.pre.att = reconnectAttempts
    /\ currentReconnectAttempts = reconnectAttempts

\* C19: in the state right after disconnect() returns, the manual-close
\* flag is set, no reconnect timer is pending (the one that was pending is
\* cancelled and cannot fire), no heartbeat timer is pending, this.ws is
\* null and isConnected() is false.
C19_DisconnectCancelsTimers ==
    last.op = "disconnect"
        => /\ isManualClose
           /\ ~reconnectTimer
           /\ timeouts = 0
           /\ ~ENABLED ReconnectTimerFires
           /\ ~heartbeatTimer
           /\ intervals = 0
           /\ ws = Null
           /\ ~isConnected

\* disconnect() was called with a reconnect timer pending, the heartbeat
\* running and the connection open.
C19_Witness ==
    /\ last.op = "disconnect"
    /\ last.pre.rt
    /\ last.pre.hb
    /\ last.pre.open
    /\ stale # EmptyBag

\* C20: when the caller calls connect() after the automatic reconnects have
\* given up, the reconnect state is reset: the close event of the transport
\* that call created is eligible for automatic reconnection, so it leaves a
\* reconnect timer pending.
C20_ConnectRestoresBudget ==
    (last.op = "close" /\ last.cur /\ afterExhaustion)
        => (last.ret /\ reconnectTimer)

\* A transport disconnect() closed while its handshake was in flight: it is
\* closing and has never opened.
ClosedInHandshake(t) == t.st = "CLOSING" /\ t.ev = "none"

\* C21: when disconnect() was called while a connect() handshake was in
\* flight, the close event of that transport schedules no reconnect timer:
\* it leaves the timer and the attempt counter as they were (the
\* manual-close flag disconnect() set being still in force).
C21_NoReconnectFromCancelledHandshake ==
    [][\A p \in Places :
          (/\ ClosedInHandshake(p[2])
           /\ last'.op = "close"
           /\ last'.cur = p[1]
           /\ ws' = PutWs(p[1], p[2],
                          [p[2] EXCEPT !.st = "CLOSED", !.ev = "close"])
           /\ stale' = PutStale(p[1], p[2],
                                [p[2] EXCEPT !.st = "CLOSED", !.ev = "close"]))
          => UNCHANGED <<reconnectTimer, timeouts,
                         currentReconnectAttempts>>]_vars

\* C22: a qualifying close with no reconnect timer pending increments the
\* attempt counter by exactly 1 and leaves exactly one timer pending; with a
\* timer already pending it changes neither; the timer's firing nulls the
\* handle and calls connect() once.  Hence every reconnect-initiated
\* connect() is covered by the counter: an open sets the counter to 0, so a
\* timer that fires with the counter at 0 is a reconnect-initiated connect()
\* since the last open in excess of the counter.
C22_ReconnectsWithinCounter ==
    /\ (last.op = "close" /\ last.ret /\ ~last.pre.rt)
          => /\ currentReconnectAttempts = last.pre.att + 1
             /\ reconnectTimer
             /\ timeouts = 1
    /\ (last.op = "close" /\ last.ret /\ last.pre.rt)
          => /\ currentReconnectAttempts = last.pre.att
             /\ reconnectTimer
             /\ timeouts = 1
    /\ last.op = "timer"
          => /\ ~reconnectTimer
             /\ timeouts = 0
             /\ urlOk => ws = NewSock
             /\ last.pre.att >= 1

\* C23: a reconnect timer is created, and the attempt counter incremented,
\* only by the handling of a transport close event; no other step (the
\* timer's own firing, a rejected connect(), an error event) schedules a
\* retry.  So while the transport of a reconnect attempt delivers no close
\* event, no timer is pending and none can fire, even with attempts left.
C23_RetriesOnlyOnClose ==
    /\ [](reconnectTimer <=> timeouts > 0)
    /\ [][(\/ timeouts' > timeouts
           \/ ~reconnectTimer /\ reconnectTimer'
           \/ currentReconnectAttempts' > currentReconnectAttempts)
            => last'.op = "close"]_vars
    /\ [][last'.op \in {"timer", "error"}
            => /\ currentReconnectAttempts' = currentReconnectAttempts
               /\ timeouts' <= timeouts]_vars

\* The first reconnect attempt ended in an error event and has delivered
\* no close event: attempts are left, and no timer is pending.
C23_Witness ==
    /\ scenario = 5
    /\ last.op = "error"
    /\ ws.st = "FAILED"
    /\ shouldReconnect
    /\ ~isManualClose
    /\ ~reconnectTimer
    /\ timeouts = 0
    /\ ~isConnected

\* C24: the heartbeat timer is pending exactly while the connection is
\* open: whenever isConnected() is true one heartbeat interval is pending
\* (also after a close event of a transport that is not the current one),
\* and after a close event or disconnect() none is pending.
C24_HeartbeatWhileOpen ==
    /\ isConnected => (heartbeatTimer /\ intervals = 1)
    /\ last.op \in {"close", "disconnect"}
         => (~heartbeatTimer /\ intervals = 0)

\* C25: after any sequence of subscribe calls and unsubscribe-function
\* calls no message type of the registry is mapped to an empty handler set:
\* a type is a key exactly when a handler is registered for it.  A
\* subscribe call leaves its type present with its handler in it; an
\* unsubscribe call leaves its type present exactly when another handler of
\* that type was registered.
C25_NoEmptyHandlerSets ==
    /\ [](\A ty \in DOMAIN eventHandlers : Len(eventHandlers[ty]) > 0)
    /\ [][last'.op = "subscribe"
            => last'.arg[2] \in Range(HandlersOf(eventHandlers',
                                                 last'.arg[1]))]_vars
    /\ [][last'.op = "unsubscribe"
            => (last'.arg[1] \in DOMAIN eventHandlers'
                  <=> \E x \in Range(HandlersOf(eventHandlers,
                                                last'.arg[1])) :
                         x # last'.arg[2])]_vars

\* An unsubscribe call removed the last handler of its type, and the type
\* left the registry.
C25_Witness ==
    /\ last.op = "unsubscribe"
    /\ last.arg[1] \in DOMAIN last.pre.eh
    /\ last.pre.eh[last.arg[1]] = <<last.arg[2]>>
    /\ last.arg[1] \notin DOMAIN eventHandlers

\* C26 as stated: an unsubscribe function acts only on the registration of
\* the subscribe call that returned it, so calling again a function that
\* was called before leaves a handler registered since then in place.
C26_StaleUnsubscribeKeeps ==
    (/\ last.op = "unsubscribe"
     /\ ~last.cur
     /\ last.arg[2] \in Range(HandlersOf(last.pre.eh, last.arg[1])))
        => last.arg[2] \in Range(HandlersOf(eventHandlers, last.arg[1]))

\* C26 amended: an unsubscribe function removes its handler from its type
\* by identity, whichever subscribe call registered it: after any call of
\* it, also a repeated one made after the handler was subscribed again, the
\* handler is not registered under the type, and a frame of that type
\* delivered next does not call it.
C26_UnsubscribeByIdentity ==
    /\ [](last.op = "unsubscribe"
            => last.arg[2] \notin Range(HandlersOf(eventHandlers,
                                                   last.arg[1])))
    /\ [][(/\ last.op = "unsubscribe"
           /\ last'.op = "message"
           /\ JSONparse(last'.arg).ok
           /\ JSONparse(last'.arg).value # <<>>
           /\ JSONparse(last'.arg).value[1] = last.arg[1])
            => \A i \in 1..Len(last'.calls) :
                  last'.calls[i][1] # last.arg[2]]_vars

\* A function called before was called again after its handler had been
\* subscribed again, the closure of that later call not yet called: the
\* later registration is gone.
C26_Witness ==
    /\ last.op = "unsubscribe"
    /\ ~last.cur
    /\ last.arg[2] \in Range(HandlersOf(last.pre.eh, last.arg[1]))
    /\ Outstanding(last.arg[1], last.arg[2]) > 0
    /\ last.arg[2] \notin Range(HandlersOf(eventHandlers, last.arg[1]))

\* C27: the manual-close flag disconnect() sets stays set until a transport
\* open event: only a disconnect step sets it, only an open step clears it,
\* and connect() leaves it as it is.  So a close event handled while the
\* flag is set, as when connect() was called after disconnect() and the
\* handshake ended with a close event before any open, schedules no
\* reconnect timer and leaves the attempt counter unchanged.
C27_ManualFlagUntilOpen ==
    /\ [][(isManualClose /\ ~isManualClose') => last'.op = "open"]_vars
    /\ [][(~isManualClose /\ isManualClose')
            => last'.op = "disconnect"]_vars
    /\ [][last'.op = "connect" => isManualClose' = isManualClose]_vars
    /\ [][(last'.op = "close" /\ isManualClose)
            => /\ ~last'.ret
               /\ isManualClose'
               /\ UNCHANGED <<reconnectTimer, timeouts,
                              currentReconnectAttempts>>]_vars

\* connect() was the caller's last call, made with the flag set; its
\* transport closed without having opened, attempts being left: no timer
\* is pending.
C27_Witness ==
    /\ last.op = "close"
    /\ last.cur
    /\ last.pre.manual
    /\ lastCall = "connect"
    /\ ws.st = "CLOSED"
    /\ ws.promise # "resolved"
    /\ shouldReconnect
    /\ ~reconnectTimer
    /\ timeouts = 0
    /\ currentReconnectAttempts = last.pre.att

\* C28: no reconnect timer is pending while the connection is open:
\* whenever isConnected() is true the timer handle is unset and no timeout
\* is pending, so the timer never fires on a connected client.
C28_NoTimerWhileConnected ==
    /\ isConnected => (~reconnectTimer /\ timeouts = 0)
    /\ last.op = "timer" => ~last.pre.open

\* The steps of the connection lifecycle.
LifecycleOps ==
    {"connect", "disconnect", "timer", "open", "close", "error", "closing"}

\* C29: connect(), disconnect(), the firing of the reconnect timer and the
\* transport's open, close and error events leave the handler registry as
\* it is, and a frame is dispatched to the handlers the registry holds when
\* it arrives: a handler subscribed before a disconnect or a close is
\* called for a matching frame of a later connection.
C29_LifecycleKeepsRegistry ==
    /\ [][last'.op \in LifecycleOps
            => eventHandlers' = eventHandlers]_vars
    /\ []((IsObjectMessage /\ last.exc = "none")
            => \A h \in Handlers :
                  CountCalls(h) =
                     IF h \in Range(HandlersOf(last.pre.eh, Parsed.value[1]))
                     THEN 1 ELSE 0)

\* disconnect() was called on an open connection with handlers registered.
C29_Witness ==
    /\ last.op = "disconnect"
    /\ last.pre.open
    /\ last.pre.eh # NoHandlers
    /\ eventHandlers = last.pre.eh

\* The frame of a control message of the given kind.
ControlFrame(kind) == JSONstringify(kind).text

\* C30: subscribeToStockPrices always leaves its handler registered under
\* price_update and transmits the subscribe message exactly when the
\* connection was open at the call; no other step, an open or a reconnect
\* included, transmits a subscribe message.  Its cleanup always leaves the
\* handler unregistered and transmits the unsubscribe message exactly when
\* the connection was open at the cleanup, whether or not a subscribe
\* message was ever transmitted.
C30_StockSubscriptionMessages ==
    /\ last.op = "subscribeToStockPrices"
          => /\ last.arg[2] \in Range(HandlersOf(eventHandlers,
                                                 "price_update"))
             /\ last.tx = IF last.pre.open THEN ControlFrame("subscribe")
                                           ELSE NoFrame
    /\ last.tx = ControlFrame("subscribe")
          => last.op = "subscribeToStockPrices"
    /\ last.op = "cleanup"
          => /\ last.arg[2] \notin Range(HandlersOf(eventHandlers,
                                                    "price_update"))
             /\ last.tx = IF last.pre.open THEN ControlFrame("unsubscribe")
                                           ELSE NoFrame

\* A cleanup transmitted the unsubscribe message although no subscribe
\* message was ever transmitted: the handler was subscribed while the
\* client was not connected.
C30_Witness ==
    /\ last.op = "cleanup"
    /\ last.cur
    /\ last.pre.open
    /\ ~announced
    /\ last.tx = ControlFrame("unsubscribe")
    /\ last.arg[2] \in Range(HandlersOf(last.pre.eh, "price_update"))
    /\ last.arg[2] \notin Range(HandlersOf(eventHandlers, "price_update"))

====
